---------------------------- MODULE Spec2Model ----------------------------
(***************************************************************************)
(* Order-to-delivery pipeline of src/app.py.                               *)
(*                                                                         *)
(* The module-level globals PRODUCTS and PROCESSED_ORDERS are the shared   *)
(* state.  They are modelled as process-global: they keep their value      *)
(* from one pipeline run to the next.  Each session runs the "Submit       *)
(* Order" handler, one stage per step (the stages are the blocks the       *)
(* handler separates with time.sleep(1)).                                  *)
(*                                                                         *)
(* Strings that the code builds by formatting are modelled as tuples of    *)
(* their parts: an order id "ORD-xxxxxx" is <<"ORD-", n>>, the empty       *)
(* string is <<>>, "Stock available (n units)" is                          *)
(* <<"Stock available (", n, " units)">>; a literal message is the         *)
(* one-part tuple <<"Out of stock">>.                                      *)
(***************************************************************************)
EXTENDS Integers, Sequences, FiniteSets, TLC

(***************************************************************************)
(* Bounds of the model.                                                    *)
(***************************************************************************)
NumOrderIds == 3   \* distinct values uuid4().hex[:6] may take
MaxQty      == 2   \* largest quantity entered in the quantity stepper
NumTracking == 1   \* distinct values uuid4().hex[:8] may take
MaxNeg      == 1   \* function calls: quantities go down to -MaxNeg
AmountSlack == 1   \* function calls: amounts within AmountSlack of the ceiling
MaxCalls    == 2   \* function calls: fulfill_order calls on the same order
MaxRuns     == 3   \* interleaved sessions: submissions made in all

(***************************************************************************)
(* Business rule constants, src/app.py:14-16.                              *)
(***************************************************************************)
MAX_ORDER_AMOUNT   == 5000
MIN_ORDER_QUANTITY == 1
SERVICEABLE_ZONES  == <<"IN">>

(***************************************************************************)
(* The catalog as the module initialises it, src/app.py:22-58 (image and   *)
(* description are presentational and left out).                           *)
(***************************************************************************)
InitialProducts ==
    [ P001 |-> [name |-> "Wireless Mouse",              price |-> 799,  stock |-> 15],
      P002 |-> [name |-> "Mechanical Keyboard",         price |-> 2499, stock |-> 5],
      P003 |-> [name |-> "USB-C Charger",               price |-> 999,  stock |-> 0],
      P004 |-> [name |-> "Noise Cancelling Headphones", price |-> 5999, stock |-> 8],
      P005 |-> [name |-> "Laptop Stand",                price |-> 1299, stock |-> 20] ]

ProductIds == DOMAIN InitialProducts

Sessions    == {1, 2}
SeqSessions == {1}     \* sequential runs: a single session submits

EmptyId  == <<>>
OrderIds == { <<"ORD-", n>> : n \in 1..NumOrderIds }
TrackingIds == { <<"TRK-", n>> : n \in 1..NumTracking }

NoOrder == [order_id |-> EmptyId]

Stages == <<"Submitted", "Validated", "StockChecked", "PaymentApproved",
            "Fulfilled", "Shipped", "Delivered">>

VARIABLES
    PRODUCTS,          \* the catalog dict; only stock is ever mutated
    PROCESSED_ORDERS,  \* the set of accepted order ids
    order,             \* per session: the order dict built by the handler
    stage,             \* per session: last stage the run has passed
    halted,            \* per session: st.stop() was called in this run
    shown,             \* per session: st.error/st.success/st.info output of the run
    validated,         \* history: order ids for which validate_order returned True
    before,            \* history, per session: the catalog when the run was submitted
    nruns,             \* history: submissions counted (where they are capped)
    fulfilled,         \* history: the orders the handler fulfilled (where they are recorded)
    arg,               \* function calls: the order the functions are called on
    ret,               \* function calls: the last call and what it returned
    pre,               \* function calls: the globals before the last call
    ncalls             \* function calls: number of fulfill_order calls made

vars == <<PRODUCTS, PROCESSED_ORDERS, order, stage, halted, shown, validated,
          before, nruns, fulfilled, arg, ret, pre, ncalls>>

pipeVars == <<order, stage, halted, shown, validated, before, nruns, fulfilled>>
callVars == <<arg, ret, pre, ncalls>>

(***************************************************************************)
(* The business logic functions, src/app.py:63-111.  Each takes the        *)
(* globals it reads as parameters.                                         *)
(***************************************************************************)
\* What a call produces: the pair (ok, msg) it returns, or the exception it
\* raises.  A message is the tuple of its parts.
Returns(ok, msg) == [raised |-> FALSE, ok |-> ok, msg |-> msg]

InZones(z) == \E i \in 1..Len(SERVICEABLE_ZONES) : SERVICEABLE_ZONES[i] = z

\* order.get("delivery_zone", "IN")
GetZone(o) == IF "delivery_zone" \in DOMAIN o THEN o.delivery_zone ELSE "IN"

\* validate_order testing the quantity before the duplicate
validate_order_qtyfirst(o, processed) ==
    IF o.order_id = EmptyId
    THEN Returns(FALSE, <<"Invalid Order ID">>)
    ELSE IF o.quantity < MIN_ORDER_QUANTITY
    THEN Returns(FALSE, <<"Order quantity below minimum threshold">>)
    ELSE IF o.order_id \in processed
    THEN Returns(FALSE, <<"Duplicate order detected">>)
    ELSE IF o.total_amount > MAX_ORDER_AMOUNT
    THEN Returns(FALSE, <<"Order amount exceeds risk threshold">>)
    ELSE IF ~InZones(GetZone(o))
    THEN Returns(FALSE, <<"Delivery address not serviceable">>)
    ELSE Returns(TRUE, <<"Order validated successfully">>)

\* validate_order rejecting only negative quantities
validate_order_negqty(o, processed) ==
    IF o.order_id = EmptyId
    THEN Returns(FALSE, <<"Invalid Order ID">>)
    ELSE IF o.order_id \in processed
    THEN Returns(FALSE, <<"Duplicate order detected">>)
    ELSE IF o.quantity < 0
    THEN Returns(FALSE, <<"Order quantity below minimum threshold">>)
    ELSE IF o.total_amount > MAX_ORDER_AMOUNT
    THEN Returns(FALSE, <<"Order amount exceeds risk threshold">>)
    ELSE IF ~InZones(GetZone(o))
    THEN Returns(FALSE, <<"Delivery address not serviceable">>)
    ELSE Returns(TRUE, <<"Order validated successfully">>)

\* validate_order testing the delivery zone before the amount
validate_order_zonefirst(o, processed) ==
    IF o.order_id = EmptyId
    THEN Returns(FALSE, <<"Invalid Order ID">>)
    ELSE IF o.order_id \in processed
    THEN Returns(FALSE, <<"Duplicate order detected">>)
    ELSE IF o.quantity < MIN_ORDER_QUANTITY
    THEN Returns(FALSE, <<"Order quantity below minimum threshold">>)
    ELSE IF ~InZones(GetZone(o))
    THEN Returns(FALSE, <<"Delivery address not serviceable">>)
    ELSE IF o.total_amount > MAX_ORDER_AMOUNT
    THEN Returns(FALSE, <<"Order amount exceeds risk threshold">>)
    ELSE Returns(TRUE, <<"Order validated successfully">>)

\* validate_order with twice the ceiling
validate_order_doubleceiling(o, processed) ==
    IF o.order_id = EmptyId
    THEN Returns(FALSE, <<"Invalid Order ID">>)
    ELSE IF o.order_id \in processed
    THEN Returns(FALSE, <<"Duplicate order detected">>)
    ELSE IF o.quantity < MIN_ORDER_QUANTITY
    THEN Returns(FALSE, <<"Order quantity below minimum threshold">>)
    ELSE IF o.total_amount > 2 * MAX_ORDER_AMOUNT
    THEN Returns(FALSE, <<"Order amount exceeds risk threshold">>)
    ELSE IF ~InZones(GetZone(o))
    THEN Returns(FALSE, <<"Delivery address not serviceable">>)
    ELSE Returns(TRUE, <<"Order validated successfully">>)

\* validate_order without its amount check
validate_order_noamount(o, processed) ==
    IF o.order_id = EmptyId
    THEN Returns(FALSE, <<"Invalid Order ID">>)
    ELSE IF o.order_id \in processed
    THEN Returns(FALSE, <<"Duplicate order detected">>)
    ELSE IF o.quantity < MIN_ORDER_QUANTITY
    THEN Returns(FALSE, <<"Order quantity below minimum threshold">>)
    ELSE IF ~InZones(GetZone(o))
    THEN Returns(FALSE, <<"Delivery address not serviceable">>)
    ELSE Returns(TRUE, <<"Order validated successfully">>)

\* validate_order without its duplicate check
validate_order_nodup(o, processed) ==
    IF o.order_id = EmptyId
    THEN Returns(FALSE, <<"Invalid Order ID">>)
    ELSE IF o.quantity < MIN_ORDER_QUANTITY
    THEN Returns(FALSE, <<"Order quantity below minimum threshold">>)
    ELSE IF o.total_amount > MAX_ORDER_AMOUNT
    THEN Returns(FALSE, <<"Order amount exceeds risk threshold">>)
    ELSE IF ~InZones(GetZone(o))
    THEN Returns(FALSE, <<"Delivery address not serviceable">>)
    ELSE Returns(TRUE, <<"Order validated successfully">>)

validate_order(o, processed) ==
    IF o.order_id = EmptyId
    THEN Returns(FALSE, <<"Invalid Order ID">>)
    ELSE IF o.order_id \in processed
    THEN Returns(FALSE, <<"Duplicate order detected">>)
    ELSE IF o.quantity < MIN_ORDER_QUANTITY
    THEN Returns(FALSE, <<"Order quantity below minimum threshold">>)
    ELSE IF o.total_amount > MAX_ORDER_AMOUNT
    THEN Returns(FALSE, <<"Order amount exceeds risk threshold">>)
    ELSE IF ~InZones(GetZone(o))
    THEN Returns(FALSE, <<"Delivery address not serviceable">>)
    ELSE Returns(TRUE, <<"Order validated successfully">>)

\* PRODUCTS[order["product_id"]] raises KeyError for an unknown product id:
\* the call then returns no (success, message) pair.
KeyError(k) == [raised |-> TRUE, exception |-> "KeyError", key |-> k]
Raised(r) == r.raised

\* check_inventory treating an unknown product as out of stock
check_inventory_missing(o, products) ==
    IF o.product_id \notin DOMAIN products
    THEN Returns(FALSE, <<"Out of stock">>)
    ELSE IF products[o.product_id].stock >= o.quantity
    THEN Returns(TRUE, <<"Stock available (", products[o.product_id].stock, " units)">>)
    ELSE Returns(FALSE, <<"Out of stock">>)

\* check_inventory accepting one unit more than the stock
check_inventory_offbyone(o, products) ==
    IF o.product_id \notin DOMAIN products
    THEN KeyError(o.product_id)
    ELSE IF products[o.product_id].stock >= o.quantity - 1
    THEN Returns(TRUE, <<"Stock available (", products[o.product_id].stock, " units)">>)
    ELSE Returns(FALSE, <<"Out of stock">>)

\* check_inventory with the comparison turned round
check_inventory_reversed(o, products) ==
    IF o.product_id \notin DOMAIN products
    THEN KeyError(o.product_id)
    ELSE IF products[o.product_id].stock <= o.quantity
    THEN Returns(TRUE, <<"Stock available (", products[o.product_id].stock, " units)">>)
    ELSE Returns(FALSE, <<"Out of stock">>)

\* check_inventory testing only that the product has stock at all
check_inventory_nonempty(o, products) ==
    IF o.product_id \notin DOMAIN products
    THEN KeyError(o.product_id)
    ELSE IF products[o.product_id].stock > 0
    THEN Returns(TRUE, <<"Stock available (", products[o.product_id].stock, " units)">>)
    ELSE Returns(FALSE, <<"Out of stock">>)

check_inventory(o, products) ==
    IF o.product_id \notin DOMAIN products
    THEN KeyError(o.product_id)
    ELSE IF products[o.product_id].stock >= o.quantity
    THEN Returns(TRUE, <<"Stock available (", products[o.product_id].stock, " units)">>)
    ELSE Returns(FALSE, <<"Out of stock">>)

process_payment(total_amount) ==
    IF total_amount <= MAX_ORDER_AMOUNT
    THEN Returns(TRUE, <<"Payment successful">>)
    ELSE Returns(FALSE, <<"Payment failed due to risk threshold">>)

\* fulfill_order taking the units from the first product of the catalog
fulfill_order_first(o, products) ==
    [products EXCEPT !["P001"].stock = @ - o.quantity]

\* fulfill_order taking one unit whatever the quantity
fulfill_order_unit(o, products) ==
    IF o.product_id \notin DOMAIN products
    THEN products
    ELSE [products EXCEPT ![o.product_id].stock = @ - 1]

\* fulfill_order decrementing only while the stock suffices
fulfill_order_guarded(o, products) ==
    IF o.product_id \notin DOMAIN products
    THEN products
    ELSE IF products[o.product_id].stock >= o.quantity
    THEN [products EXCEPT ![o.product_id].stock = @ - o.quantity]
    ELSE products

\* The catalog after fulfill_order(o); unchanged when the lookup raises.
fulfill_order(o, products) ==
    IF o.product_id \notin DOMAIN products
    THEN products
    ELSE [products EXCEPT ![o.product_id].stock = @ - o.quantity]

initiate_shipment == TrackingIds

confirm_delivery == <<"Order delivered successfully">>

(***************************************************************************)
(* Initial state: the globals as the module body leaves them, every        *)
(* session before its first submission, no function call made.             *)
(***************************************************************************)
NoCall == [fn |-> "none"]
NoPre  == [products |-> InitialProducts, processed |-> {}]

PipeIdle ==
    /\ order = [s \in Sessions |-> NoOrder]
    /\ stage = [s \in Sessions |-> "Idle"]
    /\ halted = [s \in Sessions |-> FALSE]
    /\ shown = [s \in Sessions |-> <<>>]
    /\ validated = {}
    /\ before = [s \in Sessions |-> InitialProducts]
    /\ nruns = 0
    /\ fulfilled = {}

Init ==
    /\ PRODUCTS = InitialProducts
    /\ PROCESSED_ORDERS = {}
    /\ PipeIdle
    /\ arg = NoOrder
    /\ ret = NoCall
    /\ pre = NoPre
    /\ ncalls = 0

(***************************************************************************)
(* The "Submit Order" handler, src/app.py:194-239, one stage per action.   *)
(***************************************************************************)
Running(s) == stage[s] \notin {"Idle", "Delivered"} /\ ~halted[s]

Error(m)   == [kind |-> "error", text |-> m]
Success(m) == [kind |-> "success", text |-> m]
Info(m)    == [kind |-> "info", text |-> m]

\* lines 176-201: the page generates an order id, the user picks a product
\* and a quantity, the total is computed and the order dict is built.
BuildOrder(s) ==
    /\ \E id \in OrderIds, pid \in DOMAIN PRODUCTS, q \in 1..MaxQty :
          order' = [order EXCEPT ![s] =
                      [order_id |-> id, product_id |-> pid, quantity |-> q,
                       total_amount |-> PRODUCTS[pid].price * q,
                       delivery_zone |-> "IN"]]
    /\ stage' = [stage EXCEPT ![s] = "Submitted"]
    /\ halted' = [halted EXCEPT ![s] = FALSE]
    /\ shown' = [shown EXCEPT ![s] = <<>>]
    /\ before' = [before EXCEPT ![s] = PRODUCTS]
    /\ UNCHANGED <<PRODUCTS, PROCESSED_ORDERS, validated, fulfilled, callVars>>

\* a submission while no session of `among` has a run under way
SubmitOrder(s, among) ==
    /\ \A t \in among : ~Running(t)
    /\ BuildOrder(s)
    /\ UNCHANGED nruns

\* the validation stage without st.stop() on a rejection
Validate_nostop(s) ==
    /\ stage[s] = "Submitted" /\ ~halted[s]
    /\ LET r == validate_order(order[s], PROCESSED_ORDERS) IN
       /\ shown' = [shown EXCEPT ![s] =
                      Append(@, IF r.ok THEN Success(r.msg) ELSE Error(r.msg))]
       /\ validated' = IF r.ok THEN validated \cup {order[s].order_id} ELSE validated
    /\ PROCESSED_ORDERS' = PROCESSED_ORDERS \cup {order[s].order_id}
    /\ stage' = [stage EXCEPT ![s] = "Validated"]
    /\ UNCHANGED <<PRODUCTS, order, before, nruns, fulfilled, halted, callVars>>

\* the validation stage adding the order id before it validates
Validate_addfirst(s) ==
    /\ stage[s] = "Submitted" /\ ~halted[s]
    /\ PROCESSED_ORDERS' = PROCESSED_ORDERS \cup {order[s].order_id}
    /\ LET r == validate_order(order[s], PROCESSED_ORDERS) IN
       IF ~r.ok
       THEN /\ shown' = [shown EXCEPT ![s] = Append(@, Error(r.msg))]
            /\ halted' = [halted EXCEPT ![s] = TRUE]
            /\ UNCHANGED <<stage, validated>>
       ELSE /\ shown' = [shown EXCEPT ![s] = Append(@, Success(r.msg))]
            /\ stage' = [stage EXCEPT ![s] = "Validated"]
            /\ validated' = validated \cup {order[s].order_id}
            /\ UNCHANGED halted
    /\ UNCHANGED <<PRODUCTS, order, before, nruns, fulfilled, callVars>>

\* lines 206-213
Validate(s) ==
    /\ stage[s] = "Submitted" /\ ~halted[s]
    /\ LET r == validate_order(order[s], PROCESSED_ORDERS) IN
       IF ~r.ok
       THEN /\ shown' = [shown EXCEPT ![s] = Append(@, Error(r.msg))]
            /\ halted' = [halted EXCEPT ![s] = TRUE]
            /\ UNCHANGED <<PROCESSED_ORDERS, stage, validated>>
       ELSE /\ PROCESSED_ORDERS' = PROCESSED_ORDERS \cup {order[s].order_id}
            /\ shown' = [shown EXCEPT ![s] = Append(@, Success(r.msg))]
            /\ stage' = [stage EXCEPT ![s] = "Validated"]
            /\ validated' = validated \cup {order[s].order_id}
            /\ UNCHANGED halted
    /\ UNCHANGED <<PRODUCTS, order, before, nruns, fulfilled, callVars>>

\* the inventory stage taking the order id back out on an unavailable result
CheckInventory_rollback(s) ==
    /\ stage[s] = "Validated" /\ ~halted[s]
    /\ LET r == check_inventory(order[s], PRODUCTS) IN
       IF Raised(r)
       THEN /\ shown' = [shown EXCEPT ![s] = Append(@, Error(<<r.exception, r.key>>))]
            /\ halted' = [halted EXCEPT ![s] = TRUE]
            /\ UNCHANGED <<stage, PROCESSED_ORDERS>>
       ELSE IF ~r.ok
       THEN /\ shown' = [shown EXCEPT ![s] = Append(@, Error(r.msg))]
            /\ halted' = [halted EXCEPT ![s] = TRUE]
            /\ PROCESSED_ORDERS' = PROCESSED_ORDERS \ {order[s].order_id}
            /\ UNCHANGED stage
       ELSE /\ shown' = [shown EXCEPT ![s] = Append(@, Success(r.msg))]
            /\ stage' = [stage EXCEPT ![s] = "StockChecked"]
            /\ UNCHANGED <<halted, PROCESSED_ORDERS>>
    /\ UNCHANGED <<PRODUCTS, order, before, nruns, fulfilled, validated, callVars>>

\* the inventory stage without st.stop() on an unavailable result
CheckInventory_nostop(s) ==
    /\ stage[s] = "Validated" /\ ~halted[s]
    /\ LET r == check_inventory(order[s], PRODUCTS) IN
       IF Raised(r)
       THEN /\ shown' = [shown EXCEPT ![s] = Append(@, Error(<<r.exception, r.key>>))]
            /\ halted' = [halted EXCEPT ![s] = TRUE]
            /\ UNCHANGED stage
       ELSE /\ shown' = [shown EXCEPT ![s] =
                          Append(@, IF r.ok THEN Success(r.msg) ELSE Error(r.msg))]
            /\ stage' = [stage EXCEPT ![s] = "StockChecked"]
            /\ UNCHANGED halted
    /\ UNCHANGED <<PRODUCTS, PROCESSED_ORDERS, order, before, nruns, fulfilled, validated, callVars>>

\* lines 215-220
CheckInventory(s) ==
    /\ stage[s] = "Validated" /\ ~halted[s]
    /\ LET r == check_inventory(order[s], PRODUCTS) IN
       IF Raised(r)
       THEN /\ shown' = [shown EXCEPT ![s] = Append(@, Error(<<r.exception, r.key>>))]
            /\ halted' = [halted EXCEPT ![s] = TRUE]
            /\ UNCHANGED stage
       ELSE IF ~r.ok
       THEN /\ shown' = [shown EXCEPT ![s] = Append(@, Error(r.msg))]
            /\ halted' = [halted EXCEPT ![s] = TRUE]
            /\ UNCHANGED stage
       ELSE /\ shown' = [shown EXCEPT ![s] = Append(@, Success(r.msg))]
            /\ stage' = [stage EXCEPT ![s] = "StockChecked"]
            /\ UNCHANGED halted
    /\ UNCHANGED <<PRODUCTS, PROCESSED_ORDERS, order, before, nruns, fulfilled, validated, callVars>>

\* lines 222-227
Payment(s) ==
    /\ stage[s] = "StockChecked" /\ ~halted[s]
    /\ LET r == process_payment(order[s].total_amount) IN
       IF ~r.ok
       THEN /\ shown' = [shown EXCEPT ![s] = Append(@, Error(r.msg))]
            /\ halted' = [halted EXCEPT ![s] = TRUE]
            /\ UNCHANGED stage
       ELSE /\ shown' = [shown EXCEPT ![s] = Append(@, Success(r.msg))]
            /\ stage' = [stage EXCEPT ![s] = "PaymentApproved"]
            /\ UNCHANGED halted
    /\ UNCHANGED <<PRODUCTS, PROCESSED_ORDERS, order, before, nruns, fulfilled, validated, callVars>>

\* lines 229-230
FulfillStep(s) ==
    /\ stage[s] = "PaymentApproved" /\ ~halted[s]
    /\ PRODUCTS' = fulfill_order(order[s], PRODUCTS)
    /\ shown' = [shown EXCEPT ![s] = Append(@, Success(<<"Order packed successfully">>))]
    /\ stage' = [stage EXCEPT ![s] = "Fulfilled"]
    /\ UNCHANGED <<PROCESSED_ORDERS, order, before, nruns, halted, validated, callVars>>

Fulfill(s) ==
    /\ FulfillStep(s)
    /\ UNCHANGED fulfilled

\* the shipment stage with a failure path that stops the run
Ship_fails(s) ==
    /\ stage[s] = "Fulfilled" /\ ~halted[s]
    /\ shown' = [shown EXCEPT ![s] = Append(@, Error(<<"Shipment failed">>))]
    /\ halted' = [halted EXCEPT ![s] = TRUE]
    /\ UNCHANGED <<PRODUCTS, PROCESSED_ORDERS, order, before, nruns, fulfilled, stage, validated, callVars>>

\* lines 232-234
Ship(s) ==
    /\ stage[s] = "Fulfilled" /\ ~halted[s]
    /\ \E tracking_id \in initiate_shipment :
          shown' = [shown EXCEPT ![s] =
                      Append(@, Info(<<"Shipment Initiated | Tracking ID: ", tracking_id>>))]
    /\ stage' = [stage EXCEPT ![s] = "Shipped"]
    /\ UNCHANGED <<PRODUCTS, PROCESSED_ORDERS, order, before, nruns, fulfilled, halted, validated, callVars>>

\* lines 236-239
Deliver(s) ==
    /\ stage[s] = "Shipped" /\ ~halted[s]
    /\ shown' = [shown EXCEPT ![s] = Append(@, Success(confirm_delivery))]
    /\ stage' = [stage EXCEPT ![s] = "Delivered"]
    /\ UNCHANGED <<PRODUCTS, PROCESSED_ORDERS, order, before, nruns, fulfilled, halted, validated, callVars>>

Next ==
    \E s \in SeqSessions :
        \/ SubmitOrder(s, Sessions)
        \/ Validate(s)
        \/ CheckInventory(s)
        \/ Payment(s)
        \/ Fulfill(s)
        \/ Ship(s)
        \/ Deliver(s)

Spec == Init /\ [][Next]_vars

(***************************************************************************)
(* Sequential runs with the fulfilled orders recorded.                     *)
(***************************************************************************)
LedgerFulfill(s) ==
    /\ FulfillStep(s)
    /\ fulfilled' = fulfilled \cup {order[s]}

LedgerNext ==
    \E s \in SeqSessions :
        \/ SubmitOrder(s, Sessions)
        \/ Validate(s)
        \/ CheckInventory(s)
        \/ Payment(s)
        \/ LedgerFulfill(s)
        \/ Ship(s)
        \/ Deliver(s)

LedgerSpec == Init /\ [][LedgerNext]_vars

\* The handler is straight-line code: once the button is pressed each stage
\* of the run is executed in turn (time.sleep(1) returns), so every enabled
\* stage is eventually taken.  Pressing the button is up to the user.
Fairness ==
    \A s \in SeqSessions :
        /\ WF_vars(Validate(s))
        /\ WF_vars(CheckInventory(s))
        /\ WF_vars(Payment(s))
        /\ WF_vars(Fulfill(s))
        /\ WF_vars(Ship(s))
        /\ WF_vars(Deliver(s))

FairSpec == Init /\ [][Next]_vars /\ Fairness

(***************************************************************************)
(* Sessions submitting concurrently: the runs of the sessions interleave   *)
(* at the handler's time.sleep(1) calls, i.e. stage by stage, on the       *)
(* shared globals.                                                         *)
(***************************************************************************)
ConcSubmit(s) ==
    /\ nruns < MaxRuns
    /\ ~Running(s)
    /\ BuildOrder(s)
    /\ nruns' = nruns + 1

ConcNext ==
    \E s \in Sessions :
        \/ ConcSubmit(s)
        \/ Validate(s)
        \/ CheckInventory(s)
        \/ Payment(s)
        \/ Fulfill(s)
        \/ Ship(s)
        \/ Deliver(s)

ConcSpec == Init /\ [][ConcNext]_vars

(***************************************************************************)
(* The functions called directly, on any order dict and any processed      *)
(* set: the order is drawn at the start, each action is one call.          *)
(***************************************************************************)
UnknownProduct == "P999"

FnQuantities == (0 - MaxNeg)..MaxQty
FnAmounts    == (MAX_ORDER_AMOUNT - AmountSlack)..(MAX_ORDER_AMOUNT + AmountSlack)
FnZones      == {"IN", "US"}

FnOrdersNoZone ==
    [order_id : {EmptyId} \cup OrderIds, product_id : ProductIds \cup {UnknownProduct},
     quantity : FnQuantities, total_amount : FnAmounts]

FnOrdersZone ==
    [order_id : {EmptyId} \cup OrderIds, product_id : ProductIds \cup {UnknownProduct},
     quantity : FnQuantities, total_amount : FnAmounts, delivery_zone : FnZones]

FnOrders == FnOrdersNoZone \cup FnOrdersZone

Globals == [products |-> PRODUCTS, processed |-> PROCESSED_ORDERS]

FnInit ==
    /\ PRODUCTS = InitialProducts
    /\ PROCESSED_ORDERS \in SUBSET OrderIds
    /\ PipeIdle
    /\ arg \in FnOrders
    /\ ret = NoCall
    /\ pre = Globals
    /\ ncalls = 0

CallValidate ==
    /\ ret' = [fn |-> "validate_order", result |-> validate_order(arg, PROCESSED_ORDERS)]
    /\ pre' = Globals
    /\ UNCHANGED <<PRODUCTS, PROCESSED_ORDERS, pipeVars, arg, ncalls>>

CallCheckInventory ==
    /\ ret' = [fn |-> "check_inventory", result |-> check_inventory(arg, PRODUCTS)]
    /\ pre' = Globals
    /\ UNCHANGED <<PRODUCTS, PROCESSED_ORDERS, pipeVars, arg, ncalls>>

CallProcessPayment ==
    /\ ret' = [fn |-> "process_payment", result |-> process_payment(arg.total_amount)]
    /\ pre' = Globals
    /\ UNCHANGED <<PRODUCTS, PROCESSED_ORDERS, pipeVars, arg, ncalls>>

CallFulfill ==
    /\ ncalls < MaxCalls
    /\ PRODUCTS' = fulfill_order(arg, PRODUCTS)
    /\ ret' = [fn |-> "fulfill_order",
               result |-> IF arg.product_id \in DOMAIN PRODUCTS
                          THEN Returns(TRUE, <<"Order packed successfully">>)
                          ELSE KeyError(arg.product_id)]
    /\ pre' = Globals
    /\ ncalls' = ncalls + 1
    /\ UNCHANGED <<PROCESSED_ORDERS, pipeVars, arg>>

FnNext ==
    \/ CallValidate
    \/ CallCheckInventory
    \/ CallProcessPayment
    \/ CallFulfill

FnSpec == FnInit /\ [][FnNext]_vars

(***************************************************************************)
(* The processing flow (lines 206-239) run on any order dict: the order    *)
(* and the processed set are drawn at the start, the stages follow.  The   *)
(* page itself only builds orders for catalog products (the selectbox      *)
(* lists PRODUCTS.keys() and line 186 looks the product up); the other     *)
(* orders are those of a caller that passes its own dict.                  *)
(***************************************************************************)
EntryInit ==
    /\ PRODUCTS = InitialProducts
    /\ PROCESSED_ORDERS \in SUBSET OrderIds
    /\ \E o \in FnOrders : order = [s \in Sessions |-> IF s \in SeqSessions THEN o ELSE NoOrder]
    /\ stage = [s \in Sessions |-> IF s \in SeqSessions THEN "Submitted" ELSE "Idle"]
    /\ halted = [s \in Sessions |-> FALSE]
    /\ shown = [s \in Sessions |-> <<>>]
    /\ validated = {}
    /\ before = [s \in Sessions |-> InitialProducts]
    /\ nruns = 0
    /\ fulfilled = {}
    /\ arg = NoOrder
    /\ ret = NoCall
    /\ pre = NoPre
    /\ ncalls = 0

EntryNext ==
    \E s \in SeqSessions :
        \/ Validate(s)
        \/ CheckInventory(s)
        \/ Payment(s)
        \/ Fulfill(s)
        \/ Ship(s)
        \/ Deliver(s)

EntrySpec == EntryInit /\ [][EntryNext]_vars

(***************************************************************************)
(* Properties of sequential pipeline runs (specification Spec).            *)
(***************************************************************************)
StageIdx(st) == IF st = "Idle" THEN 0 ELSE CHOOSE i \in 1..Len(Stages) : Stages[i] = st

Stock(p) == PRODUCTS[p].stock

Duplicate == Returns(FALSE, <<"Duplicate order detected">>)
OutOfStock == Returns(FALSE, <<"Out of stock">>)

\* the step of session s is the validation stage of its run
ValidateStep(s) ==
    /\ stage[s] = "Submitted" /\ ~halted[s]
    /\ halted'[s] \/ stage'[s] = "Validated"

\* the step of session s starts a new run
NewRun(s) == stage'[s] = "Submitted" /\ ~halted'[s] /\ shown'[s] = <<>>

\* C1: in every state reachable by sequential pipeline runs from the initial
\* catalog, every product's stock is >= 0.
C1_StockNeverNegative == \A p \in ProductIds : Stock(p) >= 0

\* C1 witness: a run was halted by the inventory check on a product whose
\* stock earlier fulfilments have reduced below the requested quantity.
C1_Witness ==
    \E s \in Sessions :
        /\ halted[s] /\ stage[s] = "Validated"
        /\ Stock(order[s].product_id) > 0
        /\ Stock(order[s].product_id) < InitialProducts[order[s].product_id].stock
        /\ Stock(order[s].product_id) < order[s].quantity

\* the orders that carry one of the given ids, with any quantity, amount and
\* zone (present or absent) and a known or an unknown product
OrdersCarrying(ids) ==
    [order_id : ids, product_id : {"P001", UnknownProduct},
     quantity : FnQuantities, total_amount : FnAmounts]
    \cup
    [order_id : ids, product_id : {"P001", UnknownProduct},
     quantity : FnQuantities, total_amount : FnAmounts, delivery_zone : FnZones]

\* C2: once a run has passed validate_order for an order id, validate_order
\* returns (False, "Duplicate order detected") for every order carrying that
\* id, whatever its other fields, and a run resubmitting the id is halted at
\* validation with that message.
C2_ResubmitIsDuplicate ==
    /\ [](\A o \in OrdersCarrying(validated) :
            validate_order(o, PROCESSED_ORDERS) = Duplicate)
    /\ [][\A s \in Sessions :
            (ValidateStep(s) /\ order[s].order_id \in validated)
                => /\ halted'[s]
                   /\ shown'[s] = <<Error(Duplicate.msg)>>
                   /\ PROCESSED_ORDERS' = PROCESSED_ORDERS]_vars

\* C2 witness: a run carrying an already validated order id was rejected as a
\* duplicate.
C2_Witness ==
    \E s \in Sessions :
        /\ halted[s] /\ stage[s] = "Submitted"
        /\ order[s].order_id \in validated
        /\ shown[s] = <<Error(Duplicate.msg)>>

\* C3: the stages of a run occur one after the other in the order of Stages;
\* a run is at a stage only after every earlier stage reported success; stock
\* changes only in the step PaymentApproved -> Fulfilled of a run that was not
\* halted; a halted run executes no further stage.
C3_StagesInOrder ==
    /\ [](\A s \in Sessions :
            stage[s] # "Idle" =>
                /\ Len(shown[s]) = StageIdx(stage[s]) - 1 + (IF halted[s] THEN 1 ELSE 0)
                /\ \A i \in 1..(StageIdx(stage[s]) - 1) : shown[s][i].kind # "error"
                /\ halted[s] => shown[s][Len(shown[s])].kind = "error"
                /\ halted[s] => StageIdx(stage[s]) <= 3)
    /\ [][\A s \in Sessions :
            /\ stage'[s] # stage[s] =>
                  \/ NewRun(s)
                  \/ ~halted[s] /\ ~halted'[s]
                        /\ StageIdx(stage'[s]) = StageIdx(stage[s]) + 1
            /\ halted[s] =>
                  \/ NewRun(s)
                  \/ <<stage[s], halted[s], shown[s], order[s]>>'
                        = <<stage[s], halted[s], shown[s], order[s]>>
            /\ (halted[s] /\ NewRun(s)) =>
                  /\ PRODUCTS' = PRODUCTS
                  /\ PROCESSED_ORDERS' = PROCESSED_ORDERS]_vars
    /\ [][PRODUCTS' # PRODUCTS =>
            \E s \in Sessions :
                /\ stage[s] = "PaymentApproved" /\ stage'[s] = "Fulfilled"
                /\ ~halted[s]
                /\ order[s].order_id \in validated]_vars

\* C3 witness: a run went through all the stages, and its product's stock
\* was decremented.
C3_Witness ==
    \E s \in Sessions :
        /\ stage[s] = "Delivered" /\ Len(shown[s]) = 6
        /\ Stock(order[s].product_id) < InitialProducts[order[s].product_id].stock

\* the step of session s is the inventory stage / the payment stage of its run
InventoryStep(s) ==
    /\ stage[s] = "Validated" /\ ~halted[s]
    /\ halted'[s] \/ stage'[s] = "StockChecked"

PaymentStep(s) ==
    /\ stage[s] = "StockChecked" /\ ~halted[s]
    /\ halted'[s] \/ stage'[s] = "PaymentApproved"

\* C9: the validation, inventory and payment stages leave the catalog alone,
\* and the inventory and payment stages the processed set too; the validation
\* stage adds the order id to the processed set exactly when validate_order
\* returned success, so the id is there before the inventory check runs, a
\* rejected run adds nothing, and the set holds exactly the ids that passed
\* validation.
C9_InsertAfterValidation ==
    /\ [](/\ PROCESSED_ORDERS = validated
          /\ \A s \in Sessions :
                stage[s] \notin {"Idle", "Submitted"} => order[s].order_id \in PROCESSED_ORDERS)
    /\ [][\A s \in Sessions :
            /\ ValidateStep(s) =>
                  /\ PRODUCTS' = PRODUCTS
                  /\ stage'[s] = "Validated" <=> validate_order(order[s], PROCESSED_ORDERS).ok
                  /\ PROCESSED_ORDERS' =
                        IF validate_order(order[s], PROCESSED_ORDERS).ok
                        THEN PROCESSED_ORDERS \cup {order[s].order_id}
                        ELSE PROCESSED_ORDERS
            /\ (InventoryStep(s) \/ PaymentStep(s)) =>
                  /\ PRODUCTS' = PRODUCTS
                  /\ PROCESSED_ORDERS' = PROCESSED_ORDERS]_vars
    /\ [][PROCESSED_ORDERS' # PROCESSED_ORDERS =>
            \E s \in Sessions : ValidateStep(s) /\ stage'[s] = "Validated"]_vars

\* C9 witness: a run was rejected by validation and its order id is not in
\* the processed set, which holds the id of an earlier run.
C9_Witness ==
    \E s \in Sessions :
        /\ halted[s] /\ stage[s] = "Submitted"
        /\ order[s].order_id \notin PROCESSED_ORDERS
        /\ PROCESSED_ORDERS # {}

\* the orders the handler can build with the given order id
HandlerOrders(id) ==
    { [order_id |-> id, product_id |-> pid, quantity |-> q,
       total_amount |-> PRODUCTS[pid].price * q, delivery_zone |-> "IN"] :
         pid \in ProductIds, q \in 1..MaxQty }

\* C10: no step removes an order id from the processed set; the id of a run
\* halted at the inventory check or at payment stays in the set, and every
\* order the handler can build with that id is rejected as a duplicate.
C10_NeverPruned ==
    /\ [][PROCESSED_ORDERS \subseteq PROCESSED_ORDERS']_vars
    /\ [](\A s \in Sessions :
            (halted[s] /\ stage[s] \in {"Validated", "StockChecked"}) =>
                /\ order[s].order_id \in PROCESSED_ORDERS
                /\ \A o \in HandlerOrders(order[s].order_id) :
                      validate_order(o, PROCESSED_ORDERS) = Duplicate)

\* C10 witness: a resubmitted order id was rejected as a duplicate while the
\* catalog is still the initial one, i.e. no order was ever fulfilled: the
\* earlier run with that id was halted at the inventory check.
C10_Witness ==
    \E s \in Sessions :
        /\ halted[s] /\ stage[s] = "Submitted"
        /\ shown[s] = <<Error(Duplicate.msg)>>
        /\ order[s].order_id \in PROCESSED_ORDERS
        /\ PRODUCTS = InitialProducts

PaymentOk == Returns(TRUE, <<"Payment successful">>)

\* C11: process_payment approves exactly the amounts <= 5000, every run that
\* passed validation carries such an amount, so process_payment returns
\* (True, "Payment successful") for it and no run is halted at the payment
\* stage.
C11_PaymentNeverFails ==
    /\ \A a \in FnAmounts : process_payment(a).ok <=> a <= 5000
    /\ \A s \in Sessions :
          /\ ~(halted[s] /\ stage[s] = "StockChecked")
          /\ StageIdx(stage[s]) >= 2 =>
                /\ order[s].total_amount <= 5000
                /\ process_payment(order[s].total_amount) = PaymentOk

\* C11 witness: a run had its payment approved.
C11_Witness ==
    \E s \in Sessions :
        /\ stage[s] = "PaymentApproved" /\ ~halted[s]
        /\ shown[s][3] = Success(PaymentOk.msg)

\* the run of session s is the Wireless Mouse x 2 order, submitted on the
\* initial catalog
MouseTwice(s) ==
    /\ stage[s] # "Idle"
    /\ order[s].product_id = "P001" /\ order[s].quantity = 2
    /\ before[s] = InitialProducts

AfterMouseTwice == [InitialProducts EXCEPT !["P001"].stock = 13]

\* C12: a fresh order for Wireless Mouse (P001, price 799) x 2 on the initial
\* catalog has total 1598, passes validation, finds 15 units available, has
\* its payment approved and is fulfilled leaving P001 at 13 and every other
\* stock unchanged; it is halted only if its order id was already processed.
C12_MouseTwiceScenario ==
    /\ [](\A s \in Sessions : MouseTwice(s) =>
            /\ PRODUCTS["P001"].name = "Wireless Mouse" /\ PRODUCTS["P001"].price = 799
            /\ order[s].total_amount = 1598
            /\ halted[s] => (stage[s] = "Submitted" /\ shown[s] = <<Error(Duplicate.msg)>>)
            /\ PRODUCTS = IF StageIdx(stage[s]) >= 5 THEN AfterMouseTwice
                          ELSE InitialProducts)
    /\ [][\A s \in Sessions : MouseTwice(s) =>
            /\ (ValidateStep(s) /\ order[s].order_id \notin PROCESSED_ORDERS)
                  => stage'[s] = "Validated"
            /\ InventoryStep(s) =>
                  /\ stage'[s] = "StockChecked"
                  /\ shown'[s][2] = Success(<<"Stock available (", 15, " units)">>)
            /\ PaymentStep(s) => stage'[s] = "PaymentApproved"
            /\ (stage[s] = "PaymentApproved" /\ stage'[s] # stage[s])
                  => (stage'[s] = "Fulfilled" /\ PRODUCTS' = AfterMouseTwice)
            /\ (stage[s] = "Fulfilled" /\ stage'[s] # stage[s]) => stage'[s] = "Shipped"
            /\ (stage[s] = "Shipped" /\ stage'[s] # stage[s]) => stage'[s] = "Delivered"]_vars

\* C12 witness: the Wireless Mouse x 2 order was delivered and P001 is at 13.
C12_Witness ==
    \E s \in Sessions :
        /\ MouseTwice(s) /\ stage[s] = "Delivered" /\ Len(shown[s]) = 6
        /\ order[s].total_amount = 1598
        /\ Stock("P001") = 13

Failed(s) == \E i \in 1..Len(shown[s]) : shown[s][i].kind = "error"

\* C13: a run that reported a failure is halted with the failure as its last
\* output, at validation, inventory or payment, so no later stage ran for it
\* (an inventory failure is followed by no payment, no failure by a
\* fulfilment), and the catalog is the one the run was submitted on; an order
\* for the USB-C Charger (stock 0) never gets past the inventory check.
C13_HaltLeavesStock ==
    \A s \in Sessions :
        /\ halted[s] <=> Failed(s)
        /\ Failed(s) =>
              /\ PRODUCTS = before[s]
              /\ StageIdx(stage[s]) <= 3
              /\ Len(shown[s]) = StageIdx(stage[s])
              /\ shown[s][Len(shown[s])].kind = "error"
        /\ (halted[s] /\ stage[s] = "Validated") =>
              shown[s] = <<Success(<<"Order validated successfully">>), Error(OutOfStock.msg)>>
        /\ (stage[s] # "Idle" /\ order[s].product_id = "P003") => StageIdx(stage[s]) <= 2

\* C13 witness: an order for one USB-C Charger passed validation and was
\* halted by the inventory check, after earlier runs had changed the catalog.
C13_Witness ==
    \E s \in Sessions :
        /\ halted[s] /\ stage[s] = "Validated"
        /\ order[s].product_id = "P003" /\ order[s].quantity = 1
        /\ shown[s][2] = Error(OutOfStock.msg)
        /\ PRODUCTS = before[s] /\ PRODUCTS # InitialProducts

\* a run of session s whose order is for the headphones
HeadphonesRun(s) == stage[s] # "Idle" /\ order[s].product_id = "P004"
OverCeiling == Returns(FALSE, <<"Order amount exceeds risk threshold">>)

\* C18 as stated: every run for P004 is rejected by validation with the
\* risk-threshold reason, P004's stock stays 8 and the id of a P004 order is
\* never in the processed set.
C18_Original ==
    /\ Stock("P004") = InitialProducts["P004"].stock
    /\ \A s \in Sessions : HeadphonesRun(s) =>
          /\ validate_order(order[s], PROCESSED_ORDERS) = OverCeiling
          /\ order[s].order_id \notin PROCESSED_ORDERS

\* C18 amended: P004 (price 5999) is never purchased.  Every order the page
\* builds for it has quantity >= 1 and total 5999 * quantity > 5000; its
\* validation stage rejects it and halts the run, with the risk-threshold
\* reason when its id is not in the processed set and with the duplicate
\* reason when it is, and leaves the processed set as it was; the run never
\* gets past Submitted and P004's stock stays 8.
C18_HeadphonesNeverBought ==
    /\ [](Stock("P004") = 8)
    /\ [](\A s \in Sessions : HeadphonesRun(s) =>
            /\ order[s].quantity >= 1
            /\ order[s].total_amount = 5999 * order[s].quantity
            /\ stage[s] = "Submitted"
            /\ validate_order(order[s], PROCESSED_ORDERS)
                  = IF order[s].order_id \in PROCESSED_ORDERS THEN Duplicate ELSE OverCeiling)
    /\ [][\A s \in Sessions : (HeadphonesRun(s) /\ ValidateStep(s)) =>
            /\ halted'[s]
            /\ PROCESSED_ORDERS' = PROCESSED_ORDERS
            /\ shown'[s] = <<Error(IF order[s].order_id \in PROCESSED_ORDERS
                                   THEN Duplicate.msg ELSE OverCeiling.msg)>>]_vars

\* C18 witness: after orders for other products were delivered, a run for
\* P004 with a new id was rejected with the risk-threshold reason.
C18_Witness ==
    /\ PROCESSED_ORDERS # {}
    /\ PRODUCTS # InitialProducts
    /\ \E s \in Sessions :
          /\ HeadphonesRun(s) /\ halted[s] /\ stage[s] = "Submitted"
          /\ order[s].order_id \notin PROCESSED_ORDERS
          /\ shown[s] = <<Error(OverCeiling.msg)>>
          /\ Stock("P004") = 8

(***************************************************************************)
(* Properties of interleaved runs (specification ConcSpec).                *)
(***************************************************************************)
\* the stock the inventory check of session s's run reported
SeenStock(s) == shown[s][2].text[2]

\* C14: with runs interleaved stage by stage a product's stock can become
\* negative, and it does so only in the fulfilment step of a run whose
\* inventory check had passed on a stock that another run's fulfilment
\* lowered before this run's own fulfilment.
C14_NegativeOnlyByRace ==
    [][\A p \in ProductIds :
          (PRODUCTS'[p].stock < 0 /\ PRODUCTS'[p].stock < Stock(p)) =>
              \E s \in Sessions :
                  /\ stage[s] = "PaymentApproved" /\ stage'[s] = "Fulfilled"
                  /\ order[s].product_id = p
                  /\ PRODUCTS'[p].stock = Stock(p) - order[s].quantity
                  /\ SeenStock(s) >= order[s].quantity
                  /\ Stock(p) < SeenStock(s)
                  /\ Stock(p) < order[s].quantity]_vars

\* C14 witness: two runs for the same product both passed the inventory
\* check on the same stock, both were fulfilled, and the stock is negative.
C14_Witness ==
    \E s, t \in Sessions :
        /\ s # t
        /\ StageIdx(stage[s]) >= 5 /\ StageIdx(stage[t]) >= 5
        /\ order[s].product_id = order[t].product_id
        /\ SeenStock(s) = SeenStock(t)
        /\ SeenStock(s) >= order[s].quantity /\ SeenStock(t) >= order[t].quantity
        /\ Stock(order[s].product_id) < 0

(***************************************************************************)
(* Progress of a run (specification FairSpec).                             *)
(***************************************************************************)
Terminal(s) == halted[s] \/ stage[s] = "Delivered"

\* C15: every submitted order eventually is halted with a failure or is
\* Delivered; every step of a run either halts it or moves it to the next
\* stage with one more output (no stage is repeated); and every order whose
\* payment was approved eventually is Delivered.
C15_RunsTerminate ==
    /\ \A s \in Sessions : (stage[s] = "Submitted" /\ ~halted[s]) ~> Terminal(s)
    /\ \A s \in Sessions : (stage[s] = "PaymentApproved") ~> (stage[s] = "Delivered")
    /\ [](\A s \in Sessions : halted[s] => Failed(s))
    /\ [][\A s \in Sessions :
            (Running(s) /\ <<stage[s], halted[s], shown[s]>>' # <<stage[s], halted[s], shown[s]>>)
                => /\ Len(shown'[s]) = Len(shown[s]) + 1
                   /\ \/ halted'[s] /\ stage'[s] = stage[s]
                      \/ ~halted'[s] /\ StageIdx(stage'[s]) = StageIdx(stage[s]) + 1]_vars

\* C15 witness: a run whose payment was approved has been Delivered.
C15_Witness ==
    \E s \in Sessions :
        /\ stage[s] = "Delivered" /\ ~halted[s]
        /\ shown[s][3] = Success(PaymentOk.msg)
        /\ shown[s][6] = Success(confirm_delivery)

(***************************************************************************)
(* Properties of sequential runs with the fulfilled orders recorded        *)
(* (specification LedgerSpec).                                             *)
(***************************************************************************)
RECURSIVE SumQuantity(_)
SumQuantity(orders) ==
    IF orders = {} THEN 0
    ELSE LET o == CHOOSE x \in orders : TRUE
         IN  o.quantity + SumQuantity(orders \ {o})

FulfilledFor(p) == {o \in fulfilled : o.product_id = p}
FulfilledIds == {o.order_id : o \in fulfilled}

\* C17: in sequential runs, for every product the initial stock minus the
\* current stock is the sum of the quantities of the orders for it that
\* reached Fulfilled; an order id is fulfilled at most once, and a later run
\* carrying a fulfilled id is stopped by the duplicate check.
C17_StockConservation ==
    /\ [](\A p \in DOMAIN PRODUCTS :
            InitialProducts[p].stock - Stock(p) = SumQuantity(FulfilledFor(p)))
    /\ [](\A o1 \in fulfilled, o2 \in fulfilled : o1.order_id = o2.order_id => o1 = o2)
    /\ [](\A s \in Sessions :
            (stage[s] = "Submitted" /\ order[s].order_id \in FulfilledIds) =>
                validate_order(order[s], PROCESSED_ORDERS) = Duplicate)
    /\ [][\A s \in Sessions : (stage[s] = "PaymentApproved" /\ stage'[s] = "Fulfilled") =>
            /\ order[s].order_id \notin FulfilledIds
            /\ fulfilled' = fulfilled \cup {order[s]}]_vars

\* C17 witness: two orders for P002 and one for another product were
\* fulfilled, and a run carrying one of their ids was stopped as a duplicate.
C17_Witness ==
    /\ Cardinality(FulfilledFor("P002")) = 2
    /\ Cardinality(fulfilled) = 3
    /\ Stock("P002") < InitialProducts["P002"].stock
    /\ \E s \in Sessions :
          /\ halted[s] /\ stage[s] = "Submitted"
          /\ order[s].order_id \in FulfilledIds
          /\ shown[s] = <<Error(Duplicate.msg)>>

(***************************************************************************)
(* Properties of the flow run on any order (specification EntrySpec).      *)
(***************************************************************************)
UnknownRun(s) == stage[s] # "Idle" /\ order[s].product_id \notin DOMAIN PRODUCTS

\* C16: validate_order gives an order with an unknown product_id the result
\* it gives the same order with a catalog product, so such an order can pass
\* validation and have its id inserted into the processed set; its inventory
\* stage then ends in the KeyError of the lookup, with no (success, message)
\* pair, the id still in the processed set and the catalog unchanged.
C16_UnknownProduct ==
    /\ [](\A s \in Sessions : UnknownRun(s) =>
            /\ validate_order(order[s], PROCESSED_ORDERS)
                  = validate_order([order[s] EXCEPT !.product_id = "P001"], PROCESSED_ORDERS)
            /\ StageIdx(stage[s]) <= 2
            /\ PRODUCTS = before[s]
            /\ stage[s] = "Validated" => order[s].order_id \in PROCESSED_ORDERS
            /\ (halted[s] /\ stage[s] = "Validated") =>
                  shown[s][2] = Error(<<"KeyError", order[s].product_id>>))
    /\ [][\A s \in Sessions : (UnknownRun(s) /\ InventoryStep(s)) =>
            /\ check_inventory(order[s], PRODUCTS).raised
            /\ halted'[s]
            /\ PRODUCTS' = PRODUCTS
            /\ PROCESSED_ORDERS' = PROCESSED_ORDERS]_vars

\* C16 witness: an order with an unknown product passed validation, its id
\* was inserted, and its run ended in the KeyError of the inventory stage.
C16_Witness ==
    \E s \in Sessions :
        /\ UnknownRun(s) /\ halted[s] /\ stage[s] = "Validated"
        /\ shown[s] = <<Success(<<"Order validated successfully">>),
                        Error(<<"KeyError", UnknownProduct>>)>>
        /\ order[s].order_id \in validated
        /\ order[s].order_id \in PROCESSED_ORDERS
        /\ PRODUCTS = InitialProducts

(***************************************************************************)
(* Properties of the functions called directly (specification FnSpec).     *)
(***************************************************************************)
Called(f) == ret.fn = f

Rejects(reason) == Returns(FALSE, <<reason>>)

QtyReason    == "Order quantity below minimum threshold"
AmountReason == "Order amount exceeds risk threshold"

\* The five checks as an ordered list of <<passes, reason>> pairs.
Checks(o, processed) ==
    << <<Len(o.order_id) > 0,                      "Invalid Order ID">>,
       <<\A x \in processed : x # o.order_id,      "Duplicate order detected">>,
       <<o.quantity >= 1,                          QtyReason>>,
       <<o.total_amount <= 5000,                   AmountReason>>,
       <<IF "delivery_zone" \in DOMAIN o
         THEN o.delivery_zone \in {"IN"} ELSE TRUE, "Delivery address not serviceable">> >>

Failing(o, processed) == {i \in 1..5 : ~Checks(o, processed)[i][1]}

FirstFailure(o, processed) ==
    IF Failing(o, processed) = {}
    THEN Returns(TRUE, <<"Order validated successfully">>)
    ELSE LET i == CHOOSE j \in Failing(o, processed) :
                     \A k \in Failing(o, processed) : j <= k
         IN Rejects(Checks(o, processed)[i][2])

\* C4: for every order and processed set, validate_order returns the reason of
\* the first failing check in the order id / duplicate / quantity / amount /
\* zone, and success exactly when all five checks pass.
C4_FirstFailingCheck ==
    Called("validate_order") =>
        /\ ret.result = FirstFailure(arg, pre.processed)
        /\ ret.result.ok <=> Failing(arg, pre.processed) = {}

\* C4 witness: validate_order was called on an order failing the duplicate,
\* quantity, amount and zone checks at once and reported the duplicate.
C4_Witness ==
    /\ Called("validate_order")
    /\ Failing(arg, pre.processed) = {2, 3, 4, 5}
    /\ ret.result = Duplicate

\* C5 as stated: every order with quantity < 1 is rejected with the quantity
\* reason, whatever its order id.
C5_Original ==
    (Called("validate_order") /\ arg.quantity < 1) => ret.result = Rejects(QtyReason)

\* C5 amended: every order with quantity < 1 is rejected, and with the
\* quantity reason when its order id is non-empty and not in the processed set.
C5_QuantityBelowMinimum ==
    (Called("validate_order") /\ arg.quantity < 1) =>
        /\ ~ret.result.ok
        /\ (arg.order_id # EmptyId /\ arg.order_id \notin pre.processed)
              => ret.result = Rejects(QtyReason)

\* C5 witness: an order with a fresh id and quantity < 1 was rejected with the
\* quantity reason although its amount is over the ceiling too.
C5_Witness ==
    /\ Called("validate_order")
    /\ arg.quantity < 1 /\ arg.total_amount > MAX_ORDER_AMOUNT
    /\ arg.order_id # EmptyId /\ arg.order_id \notin pre.processed
    /\ ret.result = Rejects(QtyReason)

\* C6 as stated: every order with total_amount > 5000 is rejected with the
\* risk-threshold reason, whatever its order id and quantity.
C6_Original ==
    (Called("validate_order") /\ arg.total_amount > 5000) => ret.result = Rejects(AmountReason)

\* C6 amended: every order with total_amount > 5000 is rejected, and with the
\* risk-threshold reason when its order id is non-empty and not in the
\* processed set and its quantity is >= 1.
C6_AmountAboveCeiling ==
    (Called("validate_order") /\ arg.total_amount > 5000) =>
        /\ ~ret.result.ok
        /\ (arg.order_id # EmptyId /\ arg.order_id \notin pre.processed /\ arg.quantity >= 1)
              => ret.result = Rejects(AmountReason)

\* C6 witness: an order with a fresh id, quantity >= 1 and an amount over the
\* ceiling was rejected with the risk-threshold reason although its zone is
\* not serviceable either.
C6_Witness ==
    /\ Called("validate_order")
    /\ arg.total_amount > 5000 /\ arg.quantity >= 1
    /\ arg.order_id # EmptyId /\ arg.order_id \notin pre.processed
    /\ "delivery_zone" \in DOMAIN arg /\ arg.delivery_zone # "IN"
    /\ ret.result = Rejects(AmountReason)

ZeroStock == arg.product_id \in ProductIds /\ pre.products[arg.product_id].stock = 0

\* C7 as stated: for a product with stock 0, check_inventory returns
\* (False, "Out of stock") for every quantity, 0 and negative ones included.
C7_Original ==
    (Called("check_inventory") /\ ZeroStock) => ret.result = OutOfStock

\* C7 amended: for a product with stock 0, check_inventory returns
\* (False, "Out of stock") for every quantity >= 1.
C7_ZeroStockUnavailable ==
    (Called("check_inventory") /\ ZeroStock /\ arg.quantity >= 1) => ret.result = OutOfStock

\* C7 witness: check_inventory was called with quantity >= 1 on a product
\* with stock 0 and returned "Out of stock".
C7_Witness ==
    /\ Called("check_inventory") /\ ZeroStock /\ arg.quantity >= 1
    /\ ret.result = OutOfStock

\* C8: each call of fulfill_order on a known product lowers that product's
\* stock by exactly the order's quantity, whether or not the stock suffices,
\* and changes no other stock, no name, no price and not the processed set;
\* n calls on the same order lower the stock by n times the quantity.
C8_FulfillDecrements ==
    (Called("fulfill_order") /\ arg.product_id \in ProductIds) =>
        /\ \A p \in ProductIds :
              /\ Stock(p) = pre.products[p].stock
                              - (IF p = arg.product_id THEN arg.quantity ELSE 0)
              /\ PRODUCTS[p].name = pre.products[p].name
              /\ PRODUCTS[p].price = pre.products[p].price
        /\ PROCESSED_ORDERS = pre.processed
        /\ Stock(arg.product_id)
              = InitialProducts[arg.product_id].stock - ncalls * arg.quantity

\* C8 witness: fulfill_order was called twice on the same order, for more
\* than the stock held, and the stock went down by twice the quantity.
C8_Witness ==
    /\ Called("fulfill_order") /\ ncalls = 2
    /\ arg.product_id \in ProductIds /\ arg.quantity > 0
    /\ Stock(arg.product_id) < 0
    /\ Stock(arg.product_id) = InitialProducts[arg.product_id].stock - 2 * arg.quantity

TypeOK ==
    /\ DOMAIN PRODUCTS = ProductIds
    /\ \A p \in ProductIds : PRODUCTS[p].stock \in Int
    /\ PROCESSED_ORDERS \subseteq OrderIds
    /\ \A s \in Sessions : stage[s] \in {"Idle"} \cup {Stages[i] : i \in 1..Len(Stages)}

=============================================================================
